---- MODULE Spec2Model ----
(***************************************************************************)
(* Model of the Raywatch geyser plugin (apps/geyser-plugin/src/lib.rs):    *)
(* the plugin object (producer handle, topic), the host callbacks on_load, *)
(* on_unload, notify_transaction and notify_entry, and the rdkafka         *)
(* producer they drive (a bounded local send queue drained by the client). *)
(*                                                                         *)
(* Integers are kept below 2^31; u64 values are drawn from small sets and  *)
(* every conversion (to_be_bytes, decimal and base58 formatting, JSON) is  *)
(* computed digit by digit so that no intermediate value grows.            *)
(***************************************************************************)
EXTENDS Integers, Sequences, FiniteSets, TLC

VARIABLES
    producer,   \* RaywatchGeyserPlugin.producer : Option<BaseProducer>
    topic,      \* RaywatchGeyserPlugin.topic
    queue,      \* local send queue of the current producer (records accepted)
    phase,      \* lifecycle of the publisher as driven by on_load / on_unload
    loaded,     \* what the most recent on_load returned ("never" before any)
    last,       \* observation of the last host callback: input, calls, result
    threads,    \* the host's notifier threads: where each is in its callback
    partitions, \* the broker's partitions: the records each one holds, in order
    history     \* calls begun so far, and every record the queue accepted

vars == <<producer, topic, queue, phase, loaded, last, threads, partitions,
          history>>

\* what only the thread-by-thread specification moves
stepwise == <<threads, partitions, history>>

-----------------------------------------------------------------------------
(* Bounds and input domains                                                *)

\* capacity of the producer's local queue (queue.buffering.max.messages)
QueueCap == 1

\* notifications the host's threads begin in the thread-by-thread runs
MaxCalls == 2

\* partitions of the topic on the broker
NumPartitions == 2

Slots == {100, 66051}
Signatures == {<<0, 1>>, <<255, 254>>}
TxIndexes == {7}
EntryIndexes == {3}
NumHashes == {50}
ExecutedTxCounts == {0, 7}
StartingTxIndexes == {9}

\* how many queued records the client's thread may transmit while one
\* callback runs, between its send and its flush: none, or all of them
Transmits == {0, QueueCap}

KnownTxVersions == {"V0_0_1", "V0_0_2", "V0_0_3"}
KnownEntryVersions == {"V0_0_1", "V0_0_2"}
\* a tag of the non-exhaustive enum that this build has no arm for
FutureVersion == "V0_0_FUTURE"

\* ReplicaTransactionInfoVersions: V0_0_1 has no index field (modelled as 0)
TxInfos ==
    [version : {"V0_0_1"}, signature : Signatures, is_vote : BOOLEAN,
     index : {0}]
    \cup
    [version : {"V0_0_2", "V0_0_3", FutureVersion}, signature : Signatures,
     is_vote : BOOLEAN, index : TxIndexes]

\* ReplicaEntryInfoVersions: V0_0_1 has no starting_transaction_index (0)
EntryInfos ==
    [version : {"V0_0_1"}, slot : Slots, index : EntryIndexes,
     num_hashes : NumHashes, executed_transaction_count : ExecutedTxCounts,
     starting_transaction_index : {0}]
    \cup
    [version : {"V0_0_2", FutureVersion}, slot : Slots, index : EntryIndexes,
     num_hashes : NumHashes, executed_transaction_count : ExecutedTxCounts,
     starting_transaction_index : StartingTxIndexes]

-----------------------------------------------------------------------------
(* Formatting: integers, signatures, keys                                  *)

DecimalDigits == <<"0", "1", "2", "3", "4", "5", "6", "7", "8", "9">>

\* u64 / usize Display as serde_json writes it (itoa): decimal, no padding
RECURSIVE u64_to_string(_)
u64_to_string(n) ==
    IF n < 10 THEN DecimalDigits[n + 1]
    ELSE u64_to_string(n \div 10) \o DecimalDigits[(n % 10) + 1]

Base58Alphabet ==
    <<"1", "2", "3", "4", "5", "6", "7", "8", "9",
      "A", "B", "C", "D", "E", "F", "G", "H", "J", "K", "L", "M", "N", "P",
      "Q", "R", "S", "T", "U", "V", "W", "X", "Y", "Z",
      "a", "b", "c", "d", "e", "f", "g", "h", "i", "j", "k", "m", "n", "o",
      "p", "q", "r", "s", "t", "u", "v", "w", "x", "y", "z">>

RECURSIVE BytesValue(_)
BytesValue(bytes) ==
    IF bytes = <<>> THEN 0
    ELSE BytesValue(SubSeq(bytes, 1, Len(bytes) - 1)) * 256 + bytes[Len(bytes)]

RECURSIVE Base58Digits(_)
Base58Digits(n) ==
    IF n = 0 THEN ""
    ELSE Base58Digits(n \div 58) \o Base58Alphabet[(n % 58) + 1]

RECURSIVE LeadingZeros(_)
LeadingZeros(bytes) ==
    IF bytes = <<>> \/ bytes[1] # 0 THEN ""
    ELSE "1" \o LeadingZeros(Tail(bytes))

\* Signature::to_string(): base58 of the signature bytes
Signature_to_string(signature) ==
    LeadingZeros(signature) \o Base58Digits(BytesValue(signature))

RECURSIVE be_bytes(_, _)
be_bytes(n, width) ==
    IF width = 0 THEN <<>>
    ELSE Append(be_bytes(n \div 256, width - 1), n % 256)

\* variant: the key is built least significant byte first
to_be_bytes_reversed(slot) ==
    LET be == be_bytes(slot, 8)
    IN  [i \in 1..Len(be) |-> be[Len(be) + 1 - i]]

\* u64::to_be_bytes(): 8 bytes, most significant first
to_be_bytes(slot) == be_bytes(slot, 8)

-----------------------------------------------------------------------------
(* Serialization (serde_json::to_vec of the derived Serialize structs)     *)

\* #[derive(Serialize)] struct TxEvent { slot, signature, is_vote }
TxEvent(slot, signature, is_vote) ==
    [slot |-> slot, signature |-> signature, is_vote |-> is_vote]

\* #[derive(Serialize)] struct EntryEvent { slot, idx, num_hashes, executed_tx_count }
EntryEvent(slot, idx, num_hashes, executed_tx_count) ==
    [slot |-> slot, idx |-> idx, num_hashes |-> num_hashes,
     executed_tx_count |-> executed_tx_count]

bool_to_string(b) == IF b THEN "true" ELSE "false"

\* serde_json::to_vec(&TxEvent): fields in declaration order, compact.
\* Writing integers, a bool and a base58 string into a Vec<u8> cannot fail,
\* so the result is always Ok.
to_vec_TxEvent(event) ==
    [ok |-> TRUE,
     payload |-> "{\"slot\":" \o u64_to_string(event.slot)
                 \o ",\"signature\":\"" \o event.signature \o "\""
                 \o ",\"is_vote\":" \o bool_to_string(event.is_vote) \o "}"]

\* serde_json::to_vec(&EntryEvent)
to_vec_EntryEvent(event) ==
    [ok |-> TRUE,
     payload |-> "{\"slot\":" \o u64_to_string(event.slot)
                 \o ",\"idx\":" \o u64_to_string(event.idx)
                 \o ",\"num_hashes\":" \o u64_to_string(event.num_hashes)
                 \o ",\"executed_tx_count\":"
                 \o u64_to_string(event.executed_tx_count) \o "}"]

-----------------------------------------------------------------------------
(* The rdkafka producer                                                    *)

NoProducer == [some |-> FALSE, bootstrap_servers |-> "", message_timeout_ms |-> ""]

SomeProducer(brokers) ==
    [some |-> TRUE, bootstrap_servers |-> brokers, message_timeout_ms |-> "5000"]

\* BaseRecord::to(topic).key(key).payload(payload)
BaseRecord(t, key, payload) == [topic |-> t, key |-> key, payload |-> payload]

NoRecord == BaseRecord("", <<>>, "")

\* the producer's client as a callback sees it: its local queue, and how many
\* records its own thread transmits while the callback runs
Client(q, transmits) == [queue |-> q, transmits |-> transmits]

\* BaseProducer::send: the record is copied into the local queue, or handed
\* back with an error when the queue is full; it never waits
producer_send(client, record) ==
    IF Len(client.queue) < QueueCap
    THEN [ok |-> TRUE, client |-> Client(Append(client.queue, record), client.transmits)]
    ELSE [ok |-> FALSE, client |-> client]

\* the client's thread, running beside the callback: the oldest records leave
\* the queue (transmitted, or expired after message.timeout.ms)
client_thread(client) ==
    LET n == IF client.transmits < Len(client.queue)
             THEN client.transmits ELSE Len(client.queue)
    IN  Client(SubSeq(client.queue, n + 1, Len(client.queue)), 0)

\* Producer::flush(Duration::from_millis(0)): one poll of what the client's
\* thread has completed by then; Ok when nothing is outstanding, a timeout
\* error otherwise; it waits for nothing
producer_flush(client) ==
    LET c == client_thread(client)
    IN  [ok |-> (Len(c.queue) = 0), client |-> c]

SendStep(record, ok) == [op |-> "send", record |-> record, ok |-> ok]
FlushStep(ok) == [op |-> "flush", record |-> NoRecord, ok |-> ok]

\* what a publish call does to the producer: the steps taken, the queue after
Effect(trace, client) == [trace |-> trace, queue |-> client.queue]

-----------------------------------------------------------------------------
(* RaywatchGeyserPlugin                                                    *)

\* variant: the flush is issued only after an accepted enqueue
send_tx_event_flush_on_success(self, client, slot, signature, is_vote) ==
    IF self.producer.some
    THEN LET event == TxEvent(slot, Signature_to_string(signature), is_vote)
             ser == to_vec_TxEvent(event)
             record == BaseRecord(self.topic, to_be_bytes(slot), ser.payload)
             s == producer_send(client, record)
             f == producer_flush(s.client)
         IN  IF s.ok
             THEN Effect(<<SendStep(record, s.ok), FlushStep(f.ok)>>, f.client)
             ELSE Effect(<<SendStep(record, s.ok)>>, s.client)
    ELSE Effect(<<>>, client)

\* variant: vote transactions are filtered out before serialization
send_tx_event_votes_skipped(self, client, slot, signature, is_vote) ==
    IF self.producer.some /\ ~is_vote
    THEN LET event == TxEvent(slot, Signature_to_string(signature), is_vote)
             ser == to_vec_TxEvent(event)
             record == BaseRecord(self.topic, to_be_bytes(slot), ser.payload)
             s == producer_send(client, record)
             f == producer_flush(s.client)
         IN  Effect(<<SendStep(record, s.ok), FlushStep(f.ok)>>, f.client)
    ELSE Effect(<<>>, client)

send_tx_event(self, client, slot, signature, is_vote) ==
    IF self.producer.some
    THEN LET event == TxEvent(slot, Signature_to_string(signature), is_vote)
             ser == to_vec_TxEvent(event)
         IN  IF ser.ok
             THEN LET key == to_be_bytes(slot)
                      record == BaseRecord(self.topic, key, ser.payload)
                      s == producer_send(client, record)
                      f == producer_flush(s.client)
                  IN  Effect(<<SendStep(record, s.ok), FlushStep(f.ok)>>, f.client)
             ELSE Effect(<<>>, client)
    ELSE Effect(<<>>, client)

\* variant: idx and num_hashes are filled from each other's argument
send_entry_event_fields_swapped(self, client, slot, index, num_hashes, executed_transaction_count) ==
    IF self.producer.some
    THEN LET event == EntryEvent(slot, num_hashes, index, executed_transaction_count)
             ser == to_vec_EntryEvent(event)
             record == BaseRecord(self.topic, to_be_bytes(slot), ser.payload)
             s == producer_send(client, record)
             f == producer_flush(s.client)
         IN  Effect(<<SendStep(record, s.ok), FlushStep(f.ok)>>, f.client)
    ELSE Effect(<<>>, client)

\* variant: entry records go to a topic of their own
send_entry_event_own_topic(self, client, slot, index, num_hashes, executed_transaction_count) ==
    IF self.producer.some
    THEN LET event == EntryEvent(slot, index, num_hashes, executed_transaction_count)
             ser == to_vec_EntryEvent(event)
             record == BaseRecord("raydium-entries-raw", to_be_bytes(slot), ser.payload)
             s == producer_send(client, record)
             f == producer_flush(s.client)
         IN  Effect(<<SendStep(record, s.ok), FlushStep(f.ok)>>, f.client)
    ELSE Effect(<<>>, client)

send_entry_event(self, client, slot, index, num_hashes, executed_transaction_count) ==
    IF self.producer.some
    THEN LET event == EntryEvent(slot, index, num_hashes, executed_transaction_count)
             ser == to_vec_EntryEvent(event)
         IN  IF ser.ok
             THEN LET key == to_be_bytes(slot)
                      record == BaseRecord(self.topic, key, ser.payload)
                      s == producer_send(client, record)
                      f == producer_flush(s.client)
                  IN  Effect(<<SendStep(record, s.ok), FlushStep(f.ok)>>, f.client)
             ELSE Effect(<<>>, client)
    ELSE Effect(<<>>, client)

\* the outcome of a handler: its return value, the publish calls it made
\* (function and arguments), the producer steps they took, the queue after
Handled(result, calls, e) ==
    [result |-> result, calls |-> calls, trace |-> e.trace, queue |-> e.queue]

TxCall(slot, signature, is_vote) ==
    [fn |-> "send_tx_event",
     args |-> [slot |-> slot, signature |-> signature, is_vote |-> is_vote]]

EntryCall(slot, index, num_hashes, executed_transaction_count) ==
    [fn |-> "send_entry_event",
     args |-> [slot |-> slot, index |-> index, num_hashes |-> num_hashes,
               executed_transaction_count |-> executed_transaction_count]]

\* variant: the catch-all arm forwards the notification like the newest arm
handle_tx_versions_future_published(self, client, tx, slot) ==
    Handled("Ok", <<TxCall(slot, tx.signature, tx.is_vote)>>,
            send_tx_event(self, client, slot, tx.signature, tx.is_vote))

\* variant: the V0_0_2 arm passes the transaction's index where the slot goes
handle_tx_versions_index_as_slot(self, client, tx, slot) ==
    IF tx.version \in KnownTxVersions
    THEN LET sl == IF tx.version = "V0_0_2" THEN tx.index ELSE slot
         IN  Handled("Ok", <<TxCall(sl, tx.signature, tx.is_vote)>>,
                     send_tx_event(self, client, sl, tx.signature, tx.is_vote))
    ELSE Handled("Ok", <<>>, Effect(<<>>, client))

\* variant: a rejected enqueue is returned to the host as an error
handle_tx_versions_error_propagated(self, client, tx, slot) ==
    LET e == send_tx_event(self, client, slot, tx.signature, tx.is_vote)
        rejected == \E i \in 1..Len(e.trace) :
                        e.trace[i].op = "send" /\ ~e.trace[i].ok
    IN  IF tx.version \in KnownTxVersions
        THEN Handled(IF rejected THEN "Err" ELSE "Ok",
                     <<TxCall(slot, tx.signature, tx.is_vote)>>, e)
        ELSE Handled("Ok", <<>>, Effect(<<>>, client))

handle_tx_versions(self, client, tx, slot) ==
    CASE tx.version = "V0_0_1" ->
            Handled("Ok", <<TxCall(slot, tx.signature, tx.is_vote)>>,
                    send_tx_event(self, client, slot, tx.signature, tx.is_vote))
      [] tx.version = "V0_0_2" ->
            Handled("Ok", <<TxCall(slot, tx.signature, tx.is_vote)>>,
                    send_tx_event(self, client, slot, tx.signature, tx.is_vote))
      [] tx.version = "V0_0_3" ->
            Handled("Ok", <<TxCall(slot, tx.signature, tx.is_vote)>>,
                    send_tx_event(self, client, slot, tx.signature, tx.is_vote))
      [] OTHER ->
            Handled("Ok", <<>>, Effect(<<>>, client))

\* variant: a rejected enqueue is tried once more
handle_entry_versions_retried(self, client, entry) ==
    IF entry.version \in KnownEntryVersions
          /\ entry.executed_transaction_count # 0
    THEN LET e1 == send_entry_event(self, client, entry.slot, entry.index,
                                    entry.num_hashes,
                                    entry.executed_transaction_count)
             e2 == send_entry_event(self, Client(e1.queue, client.transmits),
                                    entry.slot, entry.index, entry.num_hashes,
                                    entry.executed_transaction_count)
             rejected == \E i \in 1..Len(e1.trace) :
                             e1.trace[i].op = "send" /\ ~e1.trace[i].ok
             call == EntryCall(entry.slot, entry.index, entry.num_hashes,
                               entry.executed_transaction_count)
         IN  IF rejected
             THEN [result |-> "Ok", calls |-> <<call>>,
                   trace |-> e1.trace \o e2.trace, queue |-> e2.queue]
             ELSE Handled("Ok", <<call>>, e1)
    ELSE Handled("Ok", <<>>, Effect(<<>>, client))

\* variant: the V0_0_2 arm passes starting_transaction_index as the index
handle_entry_versions_starting_index(self, client, entry) ==
    IF entry.version \in KnownEntryVersions
          /\ entry.executed_transaction_count # 0
    THEN LET idx == IF entry.version = "V0_0_2"
                    THEN entry.starting_transaction_index ELSE entry.index
         IN  Handled("Ok",
                     <<EntryCall(entry.slot, idx, entry.num_hashes,
                                 entry.executed_transaction_count)>>,
                     send_entry_event(self, client, entry.slot, idx,
                                      entry.num_hashes,
                                      entry.executed_transaction_count))
    ELSE Handled("Ok", <<>>, Effect(<<>>, client))

\* variant: the V0_0_2 arm has lost its executed_transaction_count test
handle_entry_versions_unfiltered(self, client, entry) ==
    IF entry.version \in KnownEntryVersions
          /\ (entry.version = "V0_0_2" \/ entry.executed_transaction_count # 0)
    THEN Handled("Ok",
                 <<EntryCall(entry.slot, entry.index, entry.num_hashes,
                             entry.executed_transaction_count)>>,
                 send_entry_event(self, client, entry.slot, entry.index,
                                  entry.num_hashes,
                                  entry.executed_transaction_count))
    ELSE Handled("Ok", <<>>, Effect(<<>>, client))

handle_entry_versions(self, client, entry) ==
    CASE entry.version = "V0_0_1" ->
            IF entry.executed_transaction_count = 0
            THEN Handled("Ok", <<>>, Effect(<<>>, client))
            ELSE Handled("Ok",
                         <<EntryCall(entry.slot, entry.index, entry.num_hashes,
                                     entry.executed_transaction_count)>>,
                         send_entry_event(self, client, entry.slot, entry.index,
                                          entry.num_hashes,
                                          entry.executed_transaction_count))
      [] entry.version = "V0_0_2" ->
            IF entry.executed_transaction_count = 0
            THEN Handled("Ok", <<>>, Effect(<<>>, client))
            ELSE Handled("Ok",
                         <<EntryCall(entry.slot, entry.index, entry.num_hashes,
                                     entry.executed_transaction_count)>>,
                         send_entry_event(self, client, entry.slot, entry.index,
                                          entry.num_hashes,
                                          entry.executed_transaction_count))
      [] OTHER ->
            Handled("Ok", <<>>, Effect(<<>>, client))

\* GeyserPlugin::notify_transaction / notify_entry delegate to the handlers
notify_transaction(self, client, tx, slot) == handle_tx_versions(self, client, tx, slot)

notify_entry(self, client, entry) == handle_entry_versions(self, client, entry)

-----------------------------------------------------------------------------
(* Configuration                                                           *)

default_kafka_brokers == "localhost:9092"

\* a JSON text: whether it is well formed, and the members of its object
JsonGarbage == [valid |-> FALSE, fields |-> <<>>]
JsonObject(fields) == [valid |-> TRUE, fields |-> fields]
JsonString(name, str) == [name |-> name, type |-> "string", str |-> str]
JsonNumber(name, str) == [name |-> name, type |-> "number", str |-> str]

\* the config files on_load is tried with: what the path resolves to
ConfigFiles ==
    { [status |-> "missing", contents |-> JsonGarbage],
      [status |-> "unreadable", contents |-> JsonGarbage],
      [status |-> "ok", contents |-> JsonGarbage],
      [status |-> "ok", contents |-> JsonObject(<<>>)],
      [status |-> "ok", contents |->
          JsonObject(<<JsonString("kafka_brokers", "b1:9092,b2:9092")>>)],
      [status |-> "ok", contents |->
          JsonObject(<<JsonNumber("kafka_brokers", "9092")>>)],
      [status |-> "ok", contents |->
          JsonObject(<<JsonString("libpath", "libraywatch.so"),
                       JsonString("kafka_brokers", "b1:9092,b2:9092")>>)] }

\* std::fs::read_to_string(config_file)
read_to_string(config_file) ==
    IF config_file.status = "ok"
    THEN [ok |-> TRUE, contents |-> config_file.contents]
    ELSE [ok |-> FALSE, contents |-> JsonGarbage]

IsKafkaBrokers(field) == field.name = "kafka_brokers"

\* serde_json::from_str::<PluginConfig>: unknown members are ignored, a
\* missing kafka_brokers takes the serde default, a non-string one is an error
from_str_PluginConfig(contents) ==
    IF ~contents.valid
    THEN [ok |-> FALSE, kafka_brokers |-> ""]
    ELSE LET fs == SelectSeq(contents.fields, IsKafkaBrokers)
         IN  IF fs = <<>>
             THEN [ok |-> TRUE, kafka_brokers |-> default_kafka_brokers]
             ELSE IF Len(fs) = 1 /\ fs[1].type = "string"
             THEN [ok |-> TRUE, kafka_brokers |-> fs[1].str]
             ELSE [ok |-> FALSE, kafka_brokers |-> ""]

\* variant: a config that does not parse yields an empty broker list
load_brokers_no_parse_fallback(config_file) ==
    LET rd == read_to_string(config_file)
    IN  IF rd.ok
        THEN from_str_PluginConfig(rd.contents).kafka_brokers
        ELSE default_kafka_brokers

\* on_load, lines 211-227: the broker list handed to init_kafka
load_brokers(config_file) ==
    LET rd == read_to_string(config_file)
    IN  IF rd.ok
        THEN LET cfg == from_str_PluginConfig(rd.contents)
             IN  IF cfg.ok THEN cfg.kafka_brokers ELSE default_kafka_brokers
        ELSE default_kafka_brokers

\* variant: the creation error is swallowed instead of returned
init_kafka_error_swallowed(self, brokers, createOk) ==
    IF createOk
    THEN [result |-> "Ok", producer |-> SomeProducer(brokers)]
    ELSE [result |-> "Ok", producer |-> self.producer]

\* variant: a producer that already exists is kept instead of replaced
init_kafka_existing_kept(self, brokers, createOk) ==
    IF createOk
    THEN [result |-> "Ok",
          producer |-> IF self.producer.some THEN self.producer
                       ELSE SomeProducer(brokers)]
    ELSE [result |-> "Err", producer |-> self.producer]

\* init_kafka: create() either yields a producer, which replaces the handle,
\* or an error, which is returned before the handle is assigned
init_kafka(self, brokers, createOk) ==
    IF createOk
    THEN [result |-> "Ok", producer |-> SomeProducer(brokers)]
    ELSE [result |-> "Err", producer |-> self.producer]

InitKafkaCall(brokers) == [fn |-> "init_kafka", args |-> [brokers |-> brokers]]

on_load(self, config_file, createOk) ==
    LET brokers == load_brokers(config_file)
        r == init_kafka(self, brokers, createOk)
    IN  [result |-> r.result, calls |-> <<InitKafkaCall(brokers)>>,
         producer |-> r.producer]

\* variant: unloading keeps the producer handle
on_unload_kept(self) == [producer |-> self.producer]

on_unload(self) == [producer |-> NoProducer]

-----------------------------------------------------------------------------
(* The state machine                                                       *)

Self == [producer |-> producer, topic |-> topic]

Observed(op, input, calls, trace, result) ==
    [op |-> op, input |-> input, calls |-> calls, trace |-> trace,
     result |-> result]

\* the host threads that deliver notifications
Threads == {"t1", "t2"}

\* a thread that is in no callback
IdleThread ==
    [pc |-> "idle", op |-> "none", input |-> <<>>, record |-> NoRecord,
     trace |-> <<>>, id |-> 0]

\* _create_plugin
Init ==
    /\ producer = NoProducer
    /\ topic = "raydium-swaps-raw"
    /\ queue = <<>>
    /\ phase = "Uninitialized"
    /\ loaded = "never"
    /\ last = Observed("_create_plugin", <<>>, <<>>, <<>>, "Ok")
    /\ threads = [t \in Threads |-> IdleThread]
    /\ partitions = [p \in 0..(NumPartitions - 1) |-> <<>>]
    /\ history = [calls |-> 0, enqueued |-> <<>>]

\* the host loads (or reloads) the plugin; a new producer starts with an
\* empty queue and the one it replaces is dropped with what it still held
OnLoad(config_file, createOk) ==
    LET r == on_load(Self, config_file, createOk)
    IN  /\ producer' = r.producer
        /\ queue' = IF r.result = "Ok" THEN <<>> ELSE queue
        /\ phase' = IF r.result = "Ok" THEN "Connected" ELSE phase
        /\ loaded' = r.result
        /\ last' = Observed("on_load",
                            [config_file |-> config_file, createOk |-> createOk],
                            r.calls, <<>>, r.result)
        /\ UNCHANGED <<topic, stepwise>>

\* the host unloads the plugin: the producer is dropped, its queue is lost
OnUnload ==
    LET r == on_unload(Self)
    IN  /\ producer' = r.producer
        /\ queue' = <<>>
        /\ phase' = "ShutDown"
        /\ last' = Observed("on_unload", <<>>, <<>>, <<>>, "Ok")
        /\ UNCHANGED <<topic, loaded, stepwise>>

\* variant: a rejected enqueue drops the producer handle
NotifyTransaction_disconnecting(tx, slot, transmits) ==
    LET r == notify_transaction(Self, Client(queue, transmits), tx, slot)
        rejected == \E i \in 1..Len(r.trace) :
                        r.trace[i].op = "send" /\ ~r.trace[i].ok
    IN  /\ queue' = IF rejected THEN <<>> ELSE r.queue
        /\ producer' = IF rejected THEN NoProducer ELSE producer
        /\ last' = Observed("notify_transaction", [tx |-> tx, slot |-> slot],
                            r.calls, r.trace, r.result)
        /\ UNCHANGED <<topic, phase, loaded, stepwise>>

NotifyTransaction(tx, slot, transmits) ==
    LET r == notify_transaction(Self, Client(queue, transmits), tx, slot)
    IN  /\ queue' = r.queue
        /\ last' = Observed("notify_transaction", [tx |-> tx, slot |-> slot],
                            r.calls, r.trace, r.result)
        /\ UNCHANGED <<producer, topic, phase, loaded, stepwise>>

NotifyEntry(entry, transmits) ==
    LET r == notify_entry(Self, Client(queue, transmits), entry)
    IN  /\ queue' = r.queue
        /\ last' = Observed("notify_entry", [entry |-> entry],
                            r.calls, r.trace, r.result)
        /\ UNCHANGED <<producer, topic, phase, loaded, stepwise>>

\* the client's own thread takes the oldest queued record off the queue
\* (transmitted, or expired after message.timeout.ms)
Transmit ==
    /\ producer.some
    /\ queue # <<>>
    /\ queue' = Tail(queue)
    /\ UNCHANGED <<producer, topic, phase, loaded, last, stepwise>>

Next ==
    \/ \E config_file \in ConfigFiles, createOk \in BOOLEAN :
          OnLoad(config_file, createOk)
    \/ OnUnload
    \/ \E tx \in TxInfos, slot \in Slots, transmits \in Transmits :
          NotifyTransaction(tx, slot, transmits)
    \/ \E entry \in EntryInfos, transmits \in Transmits :
          NotifyEntry(entry, transmits)
    \/ Transmit

Spec == Init /\ [][Next]_vars

-----------------------------------------------------------------------------
(* The notifications step by step, on the host's threads                   *)
(*                                                                         *)
(* notify_transaction and notify_entry take &self and may run on several   *)
(* host threads at once; on_load and on_unload take &mut self and so run   *)
(* only while no notification is in progress. A notification is split at   *)
(* its two calls into the shared producer (send, then flush); what comes   *)
(* before the send touches only the call's own locals.                     *)

\* the notifications the threads deliver in these runs
ThreadCalls ==
    { [op |-> "notify_transaction", input |-> [tx |-> tx, slot |-> 100]] :
        tx \in { x \in TxInfos : /\ x.signature = <<0, 1>>
                                 /\ ~x.is_vote
                                 /\ x.version \in {"V0_0_2", FutureVersion} } }
    \cup
    { [op |-> "notify_entry", input |-> [entry |-> entry]] :
        entry \in { x \in EntryInfos :
                      /\ x.executed_transaction_count = 7
                      /\ \/ x.version = "V0_0_1" /\ x.slot = 100
                         \/ x.version = "V0_0_2" /\ x.slot = 66051 } }

\* the slot a notification is about
SlotOf(call) ==
    IF call.op = "notify_transaction" THEN call.input.slot
    ELSE call.input.entry.slot

\* the arm of handle_tx_versions / handle_entry_versions the notification
\* takes: the publish call it makes, if any
publish_calls(self, call) ==
    IF call.op = "notify_transaction"
    THEN notify_transaction(self, Client(<<>>, 0), call.input.tx,
                            call.input.slot).calls
    ELSE notify_entry(self, Client(<<>>, 0), call.input.entry).calls

\* send_tx_event from the event to the record handed to producer.send
tx_record(self, slot, signature, is_vote) ==
    LET event == TxEvent(slot, Signature_to_string(signature), is_vote)
        payload == to_vec_TxEvent(event).payload
        key == to_be_bytes(slot)
    IN  BaseRecord(self.topic, key, payload)

\* variant: the entry's key is built from its index within the slot
entry_record_keyed_by_index(self, slot, index, num_hashes, executed_transaction_count) ==
    LET event == EntryEvent(slot, index, num_hashes, executed_transaction_count)
        payload == to_vec_EntryEvent(event).payload
        key == to_be_bytes(index)
    IN  BaseRecord(self.topic, key, payload)

\* send_entry_event from the event to the record handed to producer.send
entry_record(self, slot, index, num_hashes, executed_transaction_count) ==
    LET event == EntryEvent(slot, index, num_hashes, executed_transaction_count)
        payload == to_vec_EntryEvent(event).payload
        key == to_be_bytes(slot)
    IN  BaseRecord(self.topic, key, payload)

\* the record of a publish call
publish_record(self, c) ==
    IF c.fn = "send_tx_event"
    THEN tx_record(self, c.args.slot, c.args.signature, c.args.is_vote)
    ELSE entry_record(self, c.args.slot, c.args.index, c.args.num_hashes,
                      c.args.executed_transaction_count)

\* &mut self: no notification is in progress
ExclusiveAccess == \A t \in Threads : threads[t].pc = "idle"

\* a thread enters notify_transaction / notify_entry and runs up to the
\* producer.send of its publish call; a notification that publishes nothing
\* (no arm, filtered, no producer) is left with its return only
ThreadCall(t, call) ==
    LET calls == publish_calls(Self, call)
        publishes == calls # <<>> /\ producer.some
    IN  /\ threads[t].pc = "idle"
        /\ history.calls < MaxCalls
        /\ threads' = [threads EXCEPT ![t] =
              [pc |-> IF publishes THEN "send" ELSE "return",
               op |-> call.op, input |-> call.input,
               record |-> IF publishes THEN publish_record(Self, calls[1])
                          ELSE NoRecord,
               trace |-> <<>>, id |-> history.calls + 1]]
        /\ history' = [history EXCEPT !.calls = @ + 1]
        /\ UNCHANGED <<producer, topic, queue, phase, loaded, last, partitions>>

\* variant: the record to send is taken from a buffer the threads share, so
\* a thread may send what another thread serialized last
ThreadSend_shared_buffer(t) ==
    LET others == { u \in Threads : u # t /\ threads[u].pc = "send" }
        record == IF others = {} THEN threads[t].record
                  ELSE threads[CHOOSE u \in others : TRUE].record
        s == producer_send(Client(queue, 0), record)
    IN  /\ threads[t].pc = "send"
        /\ queue' = s.client.queue
        /\ threads' = [threads EXCEPT ![t].pc = "flush",
                                      ![t].trace = Append(@, SendStep(record, s.ok))]
        /\ history' = IF s.ok
                      THEN [history EXCEPT !.enqueued =
                              Append(@, [id |-> threads[t].id,
                                         call |-> [op |-> threads[t].op,
                                                   input |-> threads[t].input],
                                         record |-> record])]
                      ELSE history
        /\ UNCHANGED <<producer, topic, phase, loaded, last, partitions>>

\* producer.send(record): the record enters the shared queue or is rejected;
\* the rejection is logged and the thread goes on to the flush
ThreadSend(t) ==
    LET record == threads[t].record
        s == producer_send(Client(queue, 0), record)
    IN  /\ threads[t].pc = "send"
        /\ queue' = s.client.queue
        /\ threads' = [threads EXCEPT ![t].pc = "flush",
                                      ![t].trace = Append(@, SendStep(record, s.ok))]
        /\ history' = IF s.ok
                      THEN [history EXCEPT !.enqueued =
                              Append(@, [id |-> threads[t].id,
                                         call |-> [op |-> threads[t].op,
                                                   input |-> threads[t].input],
                                         record |-> record])]
                      ELSE history
        /\ UNCHANGED <<producer, topic, phase, loaded, last, partitions>>

\* variant: the flush waits until the queue has been emptied
ThreadFlush_waiting(t) ==
    LET f == producer_flush(Client(queue, 0))
    IN  /\ threads[t].pc = "flush"
        /\ queue = <<>>
        /\ threads' = [threads EXCEPT ![t].pc = "return",
                                      ![t].trace = Append(@, FlushStep(f.ok))]
        /\ UNCHANGED <<producer, topic, queue, phase, loaded, last, partitions,
                       history>>

\* producer.flush(Duration::from_millis(0)): looks at the queue as it is,
\* its result is discarded
ThreadFlush(t) ==
    LET f == producer_flush(Client(queue, 0))
    IN  /\ threads[t].pc = "flush"
        /\ threads' = [threads EXCEPT ![t].pc = "return",
                                      ![t].trace = Append(@, FlushStep(f.ok))]
        /\ UNCHANGED <<producer, topic, queue, phase, loaded, last, partitions,
                       history>>

\* Ok(()) goes back to the host
ThreadReturn(t) ==
    /\ threads[t].pc = "return"
    /\ threads' = [threads EXCEPT ![t] = IdleThread]
    /\ UNCHANGED <<producer, topic, queue, phase, loaded, last, partitions,
                   history>>

RECURSIVE key_hash(_)
key_hash(key) ==
    IF key = <<>> THEN 0
    ELSE (key_hash(SubSeq(key, 1, Len(key) - 1)) * 2 + key[Len(key)]) % 251

\* the partitioner: a record with a key goes to the partition its key's
\* hash selects
partition_of(key) == key_hash(key) % NumPartitions

\* the client's thread transmits the oldest queued record and the broker
\* appends it to the partition of its key (a produce request that is retried
\* after a later one went through is not modelled)
Deliver ==
    /\ producer.some
    /\ queue # <<>>
    /\ partitions' = [partitions EXCEPT ![partition_of(Head(queue).key)] =
                          Append(@, Head(queue))]
    /\ queue' = Tail(queue)
    /\ UNCHANGED <<producer, topic, phase, loaded, last, threads, history>>

\* the host and the broker beside the notifier threads; Transmit here is a
\* record that leaves the queue without reaching the broker
ThreadsNext ==
    \/ \E t \in Threads, call \in ThreadCalls : ThreadCall(t, call)
    \/ \E t \in Threads : ThreadSend(t)
    \/ \E t \in Threads : ThreadFlush(t)
    \/ \E t \in Threads : ThreadReturn(t)
    \/ Deliver
    \/ Transmit
    \/ ExclusiveAccess /\ \E createOk \in BOOLEAN :
          OnLoad([status |-> "missing", contents |-> JsonGarbage], createOk)
    \/ ExclusiveAccess /\ OnUnload

ThreadsSpec == Init /\ [][ThreadsNext]_vars

\* a thread that is inside a callback keeps running; nothing is assumed of
\* the client's thread or the broker, which may never take a record
ThreadsFairSpec ==
    /\ Init
    /\ [][ThreadsNext]_vars
    /\ \A t \in Threads :
          WF_vars(ThreadSend(t) \/ ThreadFlush(t) \/ ThreadReturn(t))

-----------------------------------------------------------------------------
(* Reading the observation of the last callback                            *)

IsNotify == last.op \in {"notify_transaction", "notify_entry"}

LastVersion ==
    IF last.op = "notify_transaction" THEN last.input.tx.version
    ELSE last.input.entry.version

LastKnown ==
    \/ last.op = "notify_transaction" /\ LastVersion \in KnownTxVersions
    \/ last.op = "notify_entry" /\ LastVersion \in KnownEntryVersions

IsSend(step) == step.op = "send"
IsFlush(step) == step.op = "flush"
IsAccepted(step) == step.op = "send" /\ step.ok
IsRejected(step) == step.op = "send" /\ ~step.ok

\* the enqueue attempts, the flushes and the accepted records of the last call
Sends == SelectSeq(last.trace, IsSend)
Flushes == SelectSeq(last.trace, IsFlush)
Enqueued == SelectSeq(last.trace, IsAccepted)
Rejected == SelectSeq(last.trace, IsRejected)

-----------------------------------------------------------------------------
(* Claims                                                                  *)

\* C1: an entry notification of a known version makes no publish call (and
\* no enqueue attempt) when executed_transaction_count is 0, and exactly one
\* publish call when it is positive, which makes exactly one enqueue attempt
\* while the publisher is Connected.
C1_EntryFilter ==
    (last.op = "notify_entry" /\ LastVersion \in KnownEntryVersions) =>
        IF last.input.entry.executed_transaction_count = 0
        THEN last.calls = <<>> /\ last.trace = <<>>
        ELSE /\ Len(last.calls) = 1
             /\ last.calls[1].fn = "send_entry_event"
             /\ (producer.some => Len(Sends) = 1)

C1_Witness ==
    /\ last.op = "notify_entry"
    /\ LastVersion = "V0_0_2"
    /\ last.input.entry.executed_transaction_count > 0
    /\ producer.some
    /\ Len(last.calls) = 1
    /\ Len(Enqueued) = 1

\* C2: a notification whose version tag has no arm makes no publish call, no
\* enqueue and no flush, whatever the publisher state, and returns Ok.
C2_UnknownVersionDropped ==
    (IsNotify /\ ~LastKnown) =>
        /\ last.calls = <<>>
        /\ last.trace = <<>>
        /\ last.result = "Ok"

C2_Witness ==
    /\ last.op = "notify_transaction"
    /\ LastVersion = FutureVersion
    /\ producer.some
    /\ queue = <<>>
    /\ last.calls = <<>>
    /\ last.result = "Ok"

\* C3: a notification received while the publisher is Uninitialized or
\* ShutDown enqueues nothing, flushes nothing and returns Ok.
C3_OnlyConnectedPublishes ==
    (IsNotify /\ phase \in {"Uninitialized", "ShutDown"}) =>
        /\ last.trace = <<>>
        /\ queue = <<>>
        /\ last.result = "Ok"

C3_Witness ==
    /\ last.op = "notify_transaction"
    /\ LastKnown
    /\ phase = "ShutDown"
    /\ loaded = "Ok"
    /\ Len(last.calls) = 1
    /\ last.trace = <<>>
    /\ last.result = "Ok"

\* C4: notify_transaction and notify_entry return Ok for every input, every
\* publisher state and every outcome of the enqueue and of the flush.
C4_NotifyAlwaysOk ==
    IsNotify => last.result = "Ok"

C4_Witness ==
    /\ IsNotify
    /\ Len(Rejected) = 1
    /\ Len(Flushes) = 1
    /\ ~Flushes[1].ok
    /\ last.result = "Ok"

\* C5 as stated: after a failed on_load no notification enqueues a record,
\* whatever happened before it (a reload included).
C5_NoServiceAfterFailedLoad ==
    (IsNotify /\ loaded = "Err") => Enqueued = <<>>

\* C5 as amended: a failed producer creation makes on_load return an error,
\* and after a failed on_load of a publisher that is not Connected (never
\* loaded, or unloaded) no notification enqueues a record.
C5_FailedLoadIsFatal ==
    /\ (last.op = "on_load" /\ ~last.input.createOk) => last.result = "Err"
    /\ (last.op = "on_load" /\ last.result = "Err") => loaded = "Err"
    /\ (IsNotify /\ loaded = "Err" /\ phase # "Connected") =>
            /\ last.trace = <<>>
            /\ queue = <<>>

C5_Witness ==
    /\ last.op = "notify_transaction"
    /\ LastKnown
    /\ loaded = "Err"
    /\ phase = "Uninitialized"
    /\ Len(last.calls) = 1
    /\ last.trace = <<>>

\* the broker list the config file stands for: its kafka_brokers string when
\* the file is read and parses, "localhost:9092" when it is missing,
\* unreadable or does not parse (not JSON, or kafka_brokers not a string)
ConfigNames(config_file, b) ==
    /\ config_file.status = "ok"
    /\ config_file.contents.valid
    /\ \E i \in 1..Len(config_file.contents.fields) :
          /\ config_file.contents.fields[i].name = "kafka_brokers"
          /\ config_file.contents.fields[i].type = "string"
          /\ config_file.contents.fields[i].str = b

ConfigBroken(config_file) ==
    \/ config_file.status # "ok"
    \/ ~config_file.contents.valid
    \/ \E i \in 1..Len(config_file.contents.fields) :
          /\ config_file.contents.fields[i].name = "kafka_brokers"
          /\ config_file.contents.fields[i].type # "string"

\* C6: on_load hands init_kafka the config's kafka_brokers verbatim, or
\* "localhost:9092" when the config is missing, unreadable or unparseable,
\* and then succeeds and leaves the publisher Connected to that address
\* whenever producer creation succeeds.
C6_ConfigErrorsRecovered ==
    last.op = "on_load" =>
        LET f == last.input.config_file
        IN  /\ Len(last.calls) = 1
            /\ last.calls[1].fn = "init_kafka"
            /\ \A b \in {"b1:9092,b2:9092", "localhost:9092"} :
                  ConfigNames(f, b) => last.calls[1].args.brokers = b
            /\ ConfigBroken(f) => last.calls[1].args.brokers = "localhost:9092"
            /\ last.input.createOk =>
                  /\ last.result = "Ok"
                  /\ phase = "Connected"
                  /\ producer.some
                  /\ producer.bootstrap_servers = last.calls[1].args.brokers

C6_Witness ==
    /\ last.op = "on_load"
    /\ last.input.config_file.status = "ok"
    /\ ~last.input.config_file.contents.valid
    /\ last.input.createOk
    /\ last.result = "Ok"
    /\ producer = SomeProducer("localhost:9092")

\* the records a trace tried to enqueue, in order
RecordsOf(trace) ==
    LET sends == SelectSeq(trace, IsSend)
    IN  [i \in 1..Len(sends) |-> sends[i].record]

\* the same transaction as the last notification, carried by another shape
TxCarriedBy(version, index) ==
    [version |-> version, signature |-> last.input.tx.signature,
     is_vote |-> last.input.tx.is_vote, index |-> index]

\* C7: whichever known transaction shape carries (slot, signature, is_vote),
\* the publish call and the record handed to the producer are the same, and
\* the call carries exactly those three values (the index is not among them).
C7_TxVersionIndependent ==
    (last.op = "notify_transaction" /\ LastKnown) =>
        /\ last.calls = <<TxCall(last.input.slot, last.input.tx.signature,
                                 last.input.tx.is_vote)>>
        /\ \A v \in KnownTxVersions, i \in TxIndexes \cup {0} :
              LET r == handle_tx_versions(Self, Client(<<>>, 0),
                                          TxCarriedBy(v, i), last.input.slot)
              IN  /\ r.calls = last.calls
                  /\ RecordsOf(r.trace) = RecordsOf(last.trace)

C7_Witness ==
    /\ last.op = "notify_transaction"
    /\ LastVersion = "V0_0_2"
    /\ last.input.tx.index # 0
    /\ last.input.tx.index # last.input.slot
    /\ producer.some
    /\ Len(Enqueued) = 1

\* the same entry as the last notification, carried by another shape
EntryCarriedBy(version, starting_transaction_index) ==
    [version |-> version, slot |-> last.input.entry.slot,
     index |-> last.input.entry.index,
     num_hashes |-> last.input.entry.num_hashes,
     executed_transaction_count |-> last.input.entry.executed_transaction_count,
     starting_transaction_index |-> starting_transaction_index]

\* C8: whichever known entry shape carries (slot, index, num_hashes,
\* executed_tx_count), the filter decision, the publish call and the record
\* handed to the producer are the same; starting_transaction_index is not
\* among the values passed on.
C8_EntryVersionIndependent ==
    (last.op = "notify_entry" /\ LastKnown) =>
        /\ \A i \in 1..Len(last.calls) :
              last.calls[i] = EntryCall(last.input.entry.slot,
                                        last.input.entry.index,
                                        last.input.entry.num_hashes,
                                        last.input.entry.executed_transaction_count)
        /\ \A v \in KnownEntryVersions, st \in StartingTxIndexes \cup {0} :
              LET r == handle_entry_versions(Self, Client(<<>>, 0),
                                             EntryCarriedBy(v, st))
              IN  /\ r.calls = last.calls
                  /\ RecordsOf(r.trace) = RecordsOf(last.trace)

C8_Witness ==
    /\ last.op = "notify_entry"
    /\ LastVersion = "V0_0_2"
    /\ last.input.entry.executed_transaction_count > 0
    /\ last.input.entry.starting_transaction_index # last.input.entry.index
    /\ producer.some
    /\ Len(Enqueued) = 1

\* the slot of the last notification
LastSlot ==
    IF last.op = "notify_transaction" THEN last.input.slot
    ELSE last.input.entry.slot

PowersOf256 == <<1, 256, 65536, 16777216>>

\* key is the 8-byte big-endian encoding of slot (slot < 2^31 here, so the
\* four most significant bytes are 0)
IsBigEndianOf(key, slot) ==
    /\ Len(key) = 8
    /\ \A i \in 1..4 : key[i] = 0
    /\ \A i \in 1..4 : key[9 - i] = (slot \div PowersOf256[i]) % 256

\* C9: the key of every record handed to the producer is the 8-byte
\* big-endian encoding of the slot of its notification (slot 100 gives
\* 00 00 00 00 00 00 00 64), and a transaction record and an entry record of
\* the same slot carry the same key.
C9_KeyIsBigEndianSlot ==
    /\ IsNotify =>
          \A i \in 1..Len(Sends) :
              /\ IsBigEndianOf(Sends[i].record.key, LastSlot)
              /\ LastSlot = 100 =>
                    Sends[i].record.key = <<0, 0, 0, 0, 0, 0, 0, 100>>
    /\ \A i \in 1..Len(queue) : \E slot \in Slots :
          IsBigEndianOf(queue[i].key, slot)
    /\ (last.op = "notify_transaction" /\ Len(Sends) = 1) =>
          \A index \in EntryIndexes, num_hashes \in NumHashes,
             count \in ExecutedTxCounts :
              LET e == send_entry_event(Self, Client(<<>>, 0), LastSlot,
                                        index, num_hashes, count)
              IN  /\ Len(e.trace) > 0
                  /\ e.trace[1].record.key = Sends[1].record.key

C9_Witness ==
    /\ last.op = "notify_entry"
    /\ LastSlot = 66051
    /\ Len(Enqueued) = 1
    /\ Enqueued[1].record.key = <<0, 0, 0, 0, 0, 1, 2, 3>>
    /\ queue = <<Enqueued[1].record>>

\* C10: every transaction notification of a known version received while
\* the publisher is Connected makes exactly one publish call and exactly one
\* enqueue attempt, vote transactions included.
C10_TransactionsUnfiltered ==
    (last.op = "notify_transaction" /\ LastKnown /\ phase = "Connected") =>
        /\ Len(last.calls) = 1
        /\ last.calls[1].fn = "send_tx_event"
        /\ Len(Sends) = 1

C10_Witness ==
    /\ last.op = "notify_transaction"
    /\ LastKnown
    /\ phase = "Connected"
    /\ last.input.tx.is_vote
    /\ Len(Enqueued) = 1

\* the wire format of section 6 of the specification, written out for the
\* values the notifications are drawn from
DecimalText(n) ==
    CASE n = 0 -> "0"
      [] n = 3 -> "3"
      [] n = 7 -> "7"
      [] n = 9 -> "9"
      [] n = 50 -> "50"
      [] n = 100 -> "100"
      [] n = 66051 -> "66051"

SignatureText(signature) ==
    CASE signature = <<0, 1>> -> "12"
      [] signature = <<255, 254>> -> "LUu"

EntryMessage(slot, index, num_hashes, executed_tx_count) ==
    "{\"slot\":" \o DecimalText(slot) \o ",\"idx\":" \o DecimalText(index)
    \o ",\"num_hashes\":" \o DecimalText(num_hashes)
    \o ",\"executed_tx_count\":" \o DecimalText(executed_tx_count) \o "}"

TransactionMessage(slot, signature, is_vote) ==
    "{\"slot\":" \o DecimalText(slot)
    \o ",\"signature\":\"" \o SignatureText(signature) \o "\""
    \o ",\"is_vote\":" \o (IF is_vote THEN "true" ELSE "false") \o "}"

\* C13: the payload of every record handed to the producer carries exactly
\* the fields of the wire format, each with the value of the notification
\* (idx = index, slot of a transaction = the slot argument), nothing altered,
\* swapped or added.
C13_PayloadContent ==
    /\ last.op = "notify_entry" =>
          \A i \in 1..Len(Sends) :
              LET e == last.input.entry
              IN  /\ Sends[i].record.payload =
                        EntryMessage(e.slot, e.index, e.num_hashes,
                                     e.executed_transaction_count)
                  /\ (e.slot = 100 /\ e.index = 3 /\ e.num_hashes = 50
                        /\ e.executed_transaction_count = 7) =>
                        Sends[i].record.payload =
                            "{\"slot\":100,\"idx\":3,\"num_hashes\":50,\"executed_tx_count\":7}"
    /\ last.op = "notify_transaction" =>
          \A i \in 1..Len(Sends) :
              Sends[i].record.payload =
                  TransactionMessage(last.input.slot, last.input.tx.signature,
                                     last.input.tx.is_vote)

C13_Witness ==
    /\ last.op = "notify_entry"
    /\ Len(Enqueued) = 1
    /\ queue = <<Enqueued[1].record>>
    /\ queue[1].payload =
          "{\"slot\":100,\"idx\":3,\"num_hashes\":50,\"executed_tx_count\":7}"

\* C17: a publish call on a Connected publisher makes one enqueue attempt and
\* then one flush, the flush being issued whether or not the enqueue was
\* accepted; a call that makes no enqueue attempt makes no flush; no flush
\* comes before its enqueue.
C17_EnqueueThenFlush ==
    IsNotify =>
        /\ \/ last.trace = <<>>
           \/ /\ Len(last.trace) = 2
              /\ last.trace[1].op = "send"
              /\ last.trace[2].op = "flush"
        /\ (producer.some /\ Len(last.calls) = 1) => Len(last.trace) = 2
        /\ (~producer.some \/ last.calls = <<>>) => last.trace = <<>>

C17_Witness ==
    /\ last.op = "notify_transaction"
    /\ Len(last.trace) = 2
    /\ last.trace[1].op = "send"
    /\ ~last.trace[1].ok
    /\ last.trace[2].op = "flush"

\* C18: every record handed to the producer or held in its queue is
\* addressed to the topic the plugin was created with, "raydium-swaps-raw",
\* and no operation changes that topic.
C18_SingleTopic ==
    /\ topic = "raydium-swaps-raw"
    /\ \A i \in 1..Len(queue) : queue[i].topic = "raydium-swaps-raw"
    /\ IsNotify =>
          \A i \in 1..Len(Sends) : Sends[i].record.topic = "raydium-swaps-raw"

C18_Witness ==
    /\ last.op = "notify_entry"
    /\ Len(Enqueued) = 1
    /\ producer.bootstrap_servers = "b1:9092,b2:9092"
    /\ queue # <<>>
    /\ queue[1].topic = "raydium-swaps-raw"

\* whether one sequence is what is left of another after its oldest
\* elements have gone
IsSuffixOf(s, t) ==
    \E k \in 0..Len(t) : s = SubSeq(t, k + 1, Len(t))

\* C12: a notification makes at most one enqueue attempt, and a step adds
\* at most one record to the producer's queue, which is the record the
\* notification of that very step had accepted; no other step (a later
\* notification's own record apart) puts a record there, so a rejected
\* event is never enqueued afterwards and none is enqueued twice.
C12_AtMostOnce ==
    [][ /\ IsNotify' => Len(Sends') <= 1
        /\ \/ IsSuffixOf(queue', queue)
           \/ /\ IsNotify'
              /\ last' # last \/ queue' # queue
              /\ Len(Enqueued') = 1
              /\ IsSuffixOf(queue', Append(queue, Enqueued'[1].record)) ]_vars

C12_Witness ==
    /\ IsNotify
    /\ Len(Sends) = 1
    /\ Len(Rejected) = 1
    /\ Len(queue) = QueueCap
    /\ \A i \in 1..Len(queue) : queue[i] # Rejected[1].record

\* C15 as stated: ShutDown is terminal, so that once on_unload has run no
\* on_load makes the publisher Connected again.
C15_ShutDownTerminal ==
    [][ phase = "ShutDown" => (phase' = "ShutDown" /\ ~producer'.some) ]_vars

\* C15 as amended: the publisher is Connected exactly while it holds a
\* producer; it becomes Connected only by a successful on_load (from
\* Uninitialized or from ShutDown) and ShutDown only by on_unload; no other
\* callback changes the state, and it never returns to Uninitialized.
C15_Lifecycle ==
    [][ /\ (phase = "Connected") <=> producer.some
        /\ (phase' = "Connected") <=> producer'.some
        /\ phase' = "Uninitialized" => phase = "Uninitialized"
        /\ phase' # phase =>
              \/ /\ phase' = "Connected"
                 /\ last'.op = "on_load"
                 /\ last'.result = "Ok"
              \/ /\ phase' = "ShutDown"
                 /\ last'.op = "on_unload" ]_vars

C15_Witness ==
    /\ phase = "ShutDown"
    /\ ~producer.some
    /\ loaded = "Ok"
    /\ last.op = "on_unload"

\* C19: a notification, whatever its outcome, leaves the producer handle and
\* the lifecycle state as they were; a rejected enqueue or a failed flush
\* does not disconnect the publisher.
C19_NotifyKeepsState ==
    [][ (IsNotify' /\ last' # last) =>
            /\ producer' = producer
            /\ phase' = phase
            /\ loaded' = loaded
            /\ topic' = topic ]_vars

C19_Witness ==
    /\ last.op = "notify_transaction"
    /\ Len(Rejected) = 1
    /\ Len(Flushes) = 1
    /\ ~Flushes[1].ok
    /\ producer.some
    /\ phase = "Connected"

\* C20: an on_load whose producer creation fails leaves the producer handle
\* (and what its queue holds) as it was; one whose creation succeeds ends
\* Connected with a new producer for the configured address in place of any
\* earlier one.
C20_FailedLoadKeepsState ==
    [][ (last'.op = "on_load" /\ last' # last) =>
            IF last'.input.createOk
            THEN /\ last'.result = "Ok"
                 /\ producer' = SomeProducer(last'.calls[1].args.brokers)
                 /\ queue' = <<>>
                 /\ phase' = "Connected"
            ELSE /\ last'.result = "Err"
                 /\ producer' = producer
                 /\ queue' = queue
                 /\ phase' = phase ]_vars

C20_Witness ==
    /\ last.op = "on_load"
    /\ last.result = "Err"
    /\ producer.some
    /\ queue # <<>>
    /\ phase = "Connected"

-----------------------------------------------------------------------------
(* Claims about the notifications step by step                             *)

Busy(t) == threads[t].pc # "idle"

\* C11: every notify_transaction / notify_entry call that a thread has
\* entered eventually returns, whatever the broker does (records never
\* taken from the queue, the queue full, deliveries pending): the thread's
\* own steps are all it needs, none of them waits for the client.
C11_CallsReturn == \A t \in Threads : Busy(t) ~> ~Busy(t)

\* a call is about to return although its flush found a record outstanding
C11_Witness ==
    \E t \in Threads :
        /\ threads[t].pc = "return"
        /\ Len(threads[t].trace) = 2
        /\ IsFlush(threads[t].trace[2]) /\ ~threads[t].trace[2].ok
        /\ queue # <<>>

\* the plugin with a producer, as every call that enqueues has seen it
ConnectedSelf ==
    [producer |-> SomeProducer(default_kafka_brokers), topic |-> topic]

\* the records the same call tries to enqueue when it runs alone, from entry
\* to return, on a producer with nothing queued
SequentialRecords(self, call) ==
    IF call.op = "notify_transaction"
    THEN RecordsOf(notify_transaction(self, Client(<<>>, 0), call.input.tx,
                                      call.input.slot).trace)
    ELSE RecordsOf(notify_entry(self, Client(<<>>, 0), call.input.entry).trace)

CallOf(t) == [op |-> threads[t].op, input |-> threads[t].input]

\* positions of the accepted-record history that belong to call number id
EnqueuedBy(id) ==
    { i \in 1..Len(history.enqueued) : history.enqueued[i].id = id }

QueuedRecords ==
    [i \in 1..Len(history.enqueued) |-> history.enqueued[i].record]

\* C16: with notifications running on several threads at once, in every
\* interleaving a call that is past its send has made exactly the enqueue
\* attempts it makes when run alone (one, with its own topic, key and
\* payload, or none); an accepted record is in the accepted-record history
\* exactly once, under its own call, and a rejected one is not there; every
\* record ever accepted is the record its call enqueues when run alone; and
\* the queue holds nothing but the latest of these, in order.
C16_ConcurrentCallsKeepTheirRecords ==
    /\ \A t \in Threads :
          /\ threads[t].pc = "send" => threads[t].trace = <<>>
          /\ threads[t].pc \in {"flush", "return"} =>
                /\ RecordsOf(threads[t].trace)
                      = SequentialRecords(Self, CallOf(t))
                /\ Len(SelectSeq(threads[t].trace, IsSend)) <= 1
                /\ Cardinality(EnqueuedBy(threads[t].id))
                      = Len(SelectSeq(threads[t].trace, IsAccepted))
    /\ \A i \in 1..Len(history.enqueued) :
          /\ EnqueuedBy(history.enqueued[i].id) = {i}
          /\ <<history.enqueued[i].record>>
                = SequentialRecords(ConnectedSelf, history.enqueued[i].call)
    /\ IsSuffixOf(queue, QueuedRecords)

\* two calls of different kinds are both between send and flush, each with
\* its record accepted
C16_Witness ==
    /\ threads["t1"].pc = "flush" /\ threads["t2"].pc = "flush"
    /\ threads["t1"].op # threads["t2"].op
    /\ threads["t1"].record # threads["t2"].record
    /\ IsAccepted(threads["t1"].trace[1])
    /\ IsAccepted(threads["t2"].trace[1])
    /\ Len(history.enqueued) = 2

RECURSIVE IsSubsequenceOf(_, _)
IsSubsequenceOf(s, t) ==
    IF s = <<>> THEN TRUE
    ELSE IF t = <<>> THEN FALSE
    ELSE IF Head(s) = Head(t) THEN IsSubsequenceOf(Tail(s), Tail(t))
    ELSE IsSubsequenceOf(s, Tail(t))

\* the records of a sequence whose key is the given slot, most significant
\* byte first
OfSlot(records, slot) ==
    LET HasKeyOf(r) == IsBigEndianOf(r.key, slot)
    IN  SelectSeq(records, HasKeyOf)

====
